---- MODULE Spec2Model ----
(***************************************************************************)
(* Model of app.py of the computation-tree explainer: the household        *)
(* builder, the submission pipeline, get_explanation and the               *)
(* indentation-based trace parser create_computation_graph.                *)
(*                                                                         *)
(* Python strings that the code inspects (trace lines, node labels) are    *)
(* sequences of one-character strings, so that startswith, strip and split *)
(* are computed as the code computes them.                                 *)
(***************************************************************************)
EXTENDS Integers, Sequences, FiniteSets, TLC

VARIABLES
    pc,             \* position of the running code
    married,        \* st.checkbox("Are you married?")
    num_children,   \* st.number_input("Number of children ...")
    situation,      \* the situation dictionary built on submission
    child_i,        \* loop variable i of "for i in range(num_children)"
    unit_i,         \* position in unit_names.items() of the inner loops
    log_lines,      \* the trace lines consumed so far by create_computation_graph
    max_depth,      \* parameter max_depth of create_computation_graph
    current_depth,  \* local current_depth
    parent_stack,   \* local parent_stack
    G,              \* the nx.DiGraph: [nodes, edges]
    added,          \* per processed line: the edge G.add_edge was called with, or <<>>
    loop_iters,     \* iterations of the go-back-up while loop for the last line
    sim,            \* outcome of the simulation call
    llm,            \* outcome of the text-generation call
    explanation,    \* value returned by get_explanation
    events          \* calls made and artifacts displayed, in order

vars == <<pc, married, num_children, situation, child_i, unit_i, log_lines,
          max_depth, current_depth, parent_stack, G, added, loop_iters,
          sim, llm, explanation, events>>

formVars == <<married, num_children>>
builderVars == <<situation, child_i, unit_i>>
parserVars == <<log_lines, max_depth, current_depth, parent_stack, G, added, loop_iters>>
pipeVars == <<sim, llm, explanation, events>>

----------------------------------------------------------------------------
(* Bounds of the model *)

\* longest trace fed to create_computation_graph
MaxLen == 3
\* largest number of leading spaces of a trace line
MaxSpaces == 4
\* largest max_depth argument tried
MaxDepthArg == 2
\* longest trace the simulation returns in the submission pipeline
MaxSimLen == 2

(* Program constants *)
MAX_DEPTH == 5
DEFAULT_CHILD_AGE == 5
MaxChildren == 10
DefaultAge == 40
DefaultIncome == 20000

----------------------------------------------------------------------------
(* Python string operations on sequences of characters *)

\* " " * n  (the empty string when n <= 0)
Spaces(n) == [k \in 1..n |-> " "]

\* line.startswith(prefix)
StartsWith(line, prefix) ==
    /\ Len(line) >= Len(prefix)
    /\ SubSeq(line, 1, Len(prefix)) = prefix

IsWhitespace(c) == c \in {" ", "\t"}

RECURSIVE LStrip(_)
LStrip(s) ==
    IF s # <<>> /\ IsWhitespace(Head(s)) THEN LStrip(Tail(s)) ELSE s

RECURSIVE RStrip(_)
RStrip(s) ==
    IF s # <<>> /\ IsWhitespace(s[Len(s)])
    THEN RStrip(SubSeq(s, 1, Len(s) - 1))
    ELSE s

\* s.strip()
Strip(s) == RStrip(LStrip(s))

\* s.split("=")[0]: the text before the first "=", all of s when there is none
RECURSIVE SplitFirst(_)
SplitFirst(s) ==
    IF s = <<>> \/ Head(s) = "=" THEN <<>>
    ELSE <<Head(s)>> \o SplitFirst(Tail(s))

\* line.strip().split("=")[0].strip()
NodeName(line) == Strip(SplitFirst(Strip(line)))

\* the synthetic root label "root"
ROOT == <<"r", "o", "o", "t">>

----------------------------------------------------------------------------
(* create_computation_graph *)

\* G = nx.DiGraph()
EmptyGraph == [nodes |-> {}, edges |-> {}]

\* G.add_edge(u, v): adds both nodes and the directed edge; a repeated edge merges
AddEdge(g, u, v) == [nodes |-> g.nodes \cup {u, v}, edges |-> g.edges \cup {<<u, v>>}]

\* parent_stack = ["root"]
InitialParentStack == <<ROOT>>

\* the locals of the function as one record; raised is set when a list
\* operation fails with IndexError
Locals(d, s, g, r, n, e) ==
    [current_depth |-> d, parent_stack |-> s, G |-> g, raised |-> r,
     iters |-> n, edge |-> e]

\* the while loop of the "go back up" branch
RECURSIVE GoBackUp(_, _)
GoBackUp(line, st) ==
    IF ~StartsWith(line, Spaces(st.current_depth * 2)) /\ st.current_depth > 0
    THEN IF st.parent_stack = <<>>
         THEN [st EXCEPT !.raised = TRUE]
         ELSE GoBackUp(line,
                  [st EXCEPT !.current_depth = @ - 1,
                             !.parent_stack = SubSeq(@, 1, Len(@) - 1),
                             !.iters = @ + 1])
    ELSE st

\* the if / elif / else that adjusts current_depth and parent_stack
AdjustDepth(line, st, md) ==
    IF StartsWith(line, Spaces(st.current_depth * 2))
    THEN st
    ELSE IF StartsWith(line, Spaces((st.current_depth + 1) * 2))
    THEN IF st.current_depth < md
         THEN IF st.parent_stack = <<>>
              THEN [st EXCEPT !.raised = TRUE]
              ELSE [st EXCEPT !.current_depth = @ + 1,
                              !.parent_stack = Append(@, @[Len(@)])]
         ELSE st
    ELSE GoBackUp(line, st)

\* NewEdge with the arguments of G.add_edge swapped
NewEdge_swapped(top, name) == <<name, top>>

\* the edge the code adds for a line: from the stack top to the line's label
NewEdge(top, name) == <<top, name>>

\* AttachNode with parent_stack.append(node_name) in place of parent_stack[-1] = node_name
AttachNode_push(line, st, md) ==
    IF st.raised \/ ~(st.current_depth <= md)
    THEN st
    ELSE IF st.parent_stack = <<>>
    THEN [st EXCEPT !.raised = TRUE]
    ELSE LET name == NodeName(line)
             e == <<st.parent_stack[Len(st.parent_stack)], name>>
         IN  [st EXCEPT !.G = [nodes |-> @.nodes \cup {e[1], e[2]},
                               edges |-> @.edges \cup {e}],
                        !.parent_stack = Append(@, name),
                        !.edge = e]

\* the final "if current_depth <= max_depth" block
AttachNode(line, st, md) ==
    IF st.raised \/ ~(st.current_depth <= md)
    THEN st
    ELSE IF st.parent_stack = <<>>
    THEN [st EXCEPT !.raised = TRUE]
    ELSE LET name == NodeName(line)
             e == NewEdge(st.parent_stack[Len(st.parent_stack)], name)
         IN  [st EXCEPT !.G = AddEdge(@, e[1], e[2]),
                        !.parent_stack = [@ EXCEPT ![Len(@)] = name],
                        !.edge = e]

\* one iteration of "for line in log_lines"
LoopBody(line, st, md) ==
    AttachNode(line, AdjustDepth(line, [st EXCEPT !.iters = 0, !.edge = <<>>], md), md)

\* the whole function on a list of lines
RECURSIVE RunLines(_, _, _)
RunLines(lines, st, md) ==
    IF lines = <<>> \/ st.raised THEN st
    ELSE RunLines(Tail(lines), LoopBody(Head(lines), st, md), md)

create_computation_graph(lines, md) ==
    RunLines(lines, Locals(0, InitialParentStack, EmptyGraph, FALSE, 0, <<>>), md)

----------------------------------------------------------------------------
(* Inputs of the parser *)

\* the text of a trace line after its indentation
Bodies ==
    { <<"a", " ", "=", " ", "1">>,
      <<"c">>,
      << >>,
      <<"r", "o", "o", "t", "=", "0">> }

Lines == { Spaces(n) \o b : n \in 0..MaxSpaces, b \in Bodies }

DepthArgs == 0..MaxDepthArg

----------------------------------------------------------------------------
(* Household builder *)

YOU == <<"you">>
SPOUSE == <<"spouse">>

\* child_name = f"child_{i+1}"
ChildName(i) == <<"child_", i + 1>>

\* unit_names.items(), in insertion order
UnitOrder == <<"families", "marital_units", "tax_units", "households">>
Units == {UnitOrder[k] : k \in 1..Len(UnitOrder)}

\* the value of the variable before the button is pressed
NoSituation == [people |-> << >>, members |-> [u \in Units |-> << >>]]

\* situation = {...}: the single-person record
InitialSituation ==
    [people  |-> (YOU :> [age |-> DefaultAge, employment_income |-> DefaultIncome]),
     members |-> [u \in Units |-> <<YOU>>]]

\* WithPerson assigning a fresh people dictionary instead of inserting a key
WithPerson_replace(s, id, attrs) ==
    [s EXCEPT !.people = (id :> attrs)]

\* situation["people"][id] = attrs
WithPerson(s, id, attrs) ==
    [s EXCEPT !.people = (id :> attrs) @@ @]

\* situation[unit][unit_name]["members"].append(id)
AppendMember(s, unit, id) ==
    [s EXCEPT !.members[unit] = Append(@, id)]

\* TakesChildren without the marital-unit exception
TakesChildren_all(unit) == TRUE

\* if unit != "marital_units"
TakesChildren(unit) == unit # "marital_units"

SpouseAttrs == [age |-> DefaultAge, employment_income |-> 0]
ChildAttrs == [age |-> DEFAULT_CHILD_AGE, employment_income |-> 0]

----------------------------------------------------------------------------
(* get_explanation *)

\* what client.messages.create and response.content[0].text can do
FailureKinds == {"network", "auth", "quota", "malformed"}
Texts == {<<"Your household is eligible because ...">>, << >>}
LlmOutcomes ==
    {[kind |-> "ok", text |-> t] : t \in Texts}
    \cup {[kind |-> k, text |-> << >>] : k \in FailureKinds}

\* the class of the exception each failure raises inside the try block
ExcClass(kind) ==
    CASE kind = "network"   -> "APIConnectionError"
      [] kind = "auth"      -> "AuthenticationError"
      [] kind = "quota"     -> "RateLimitError"
      [] kind = "malformed" -> "IndexError"

\* str(e)
ExcDetail(kind) ==
    CASE kind = "network"   -> "Connection error."
      [] kind = "auth"      -> "invalid x-api-key"
      [] kind = "quota"     -> "rate limit exceeded"
      [] kind = "malformed" -> "list index out of range"

\* Catches for "except anthropic.APIError"
Catches_api_only(cls) ==
    cls \in {"APIConnectionError", "AuthenticationError", "RateLimitError"}

\* except Exception: every class above derives from Exception
Catches(cls) ==
    cls \in {"APIConnectionError", "AuthenticationError", "RateLimitError", "IndexError"}

FailPrefix == <<"Failed to get explanation:", " ">>

\* the try / except of get_explanation; raised means the exception leaves the function
get_explanation(o) ==
    IF o.kind = "ok"
    THEN [raised |-> FALSE, value |-> o.text]
    ELSE IF Catches(ExcClass(o.kind))
    THEN [raised |-> FALSE, value |-> FailPrefix \o <<ExcDetail(o.kind)>>]
    ELSE [raised |-> TRUE, value |-> << >>]

----------------------------------------------------------------------------
(* The submission: the body of "if st.button(...)" *)

\* lines the tracer can return: two spaces per level, "name = value"
SimLines ==
    { Spaces(2 * d) \o b : d \in 0..1,
      b \in { <<"a", " ", "=", " ", "1">>, <<"b", "=", "2">> } }

RECURSIVE SeqsUpTo(_, _)
SeqsUpTo(S, n) ==
    IF n = 0 THEN {<< >>}
    ELSE LET shorter == SeqsUpTo(S, n - 1)
         IN  shorter \cup {Append(t, x) : t \in {u \in shorter : Len(u) = n - 1}, x \in S}

SimTraces == SeqsUpTo(SimLines, MaxSimLen)

\* After with the numeric result written before the explanation is requested
After_result_first(p) ==
    CASE p = "simulate"         -> "show_result"
      [] p = "show_result"      -> "explain"
      [] p = "explain"          -> "show_explanation"
      [] p = "show_explanation" -> "graph"
      [] p = "graph"            -> "plot"
      [] p = "plot"             -> "show_log"
      [] p = "show_log"         -> "done"

\* the statement that runs after each statement of the submission body
After(p) ==
    CASE p = "simulate"         -> "explain"
      [] p = "explain"          -> "show_result"
      [] p = "show_result"      -> "show_explanation"
      [] p = "show_explanation" -> "graph"
      [] p = "graph"            -> "plot"
      [] p = "plot"             -> "show_log"
      [] p = "show_log"         -> "done"

Init ==
    /\ pc = "form"
    /\ married \in BOOLEAN
    /\ num_children \in 0..MaxChildren
    /\ situation = NoSituation
    /\ child_i = 0
    /\ unit_i = 0
    /\ log_lines = << >>
    /\ max_depth = MAX_DEPTH
    /\ current_depth = 0
    /\ parent_stack = << >>
    /\ G = EmptyGraph
    /\ added = << >>
    /\ loop_iters = 0
    /\ sim = "none"
    /\ llm = [kind |-> "none", text |-> << >>]
    /\ explanation = << >>
    /\ events = << >>

\* the button is pressed: lines 112-136
Click ==
    /\ pc = "form"
    /\ situation' = InitialSituation
    /\ pc' = "spouse_check"
    /\ UNCHANGED <<formVars, child_i, unit_i, parserVars, pipeVars>>

\* if married: situation["people"]["spouse"] = {...}
CheckMarried ==
    /\ pc = "spouse_check"
    /\ IF married
       THEN /\ situation' = WithPerson(situation, SPOUSE, SpouseAttrs)
            /\ unit_i' = 1
            /\ pc' = "spouse_units"
       ELSE /\ pc' = "children"
            /\ UNCHANGED <<situation, unit_i>>
    /\ UNCHANGED <<formVars, child_i, parserVars, pipeVars>>

\* one iteration of the loop over unit_names that appends "spouse"
AppendSpouse ==
    /\ pc = "spouse_units"
    /\ situation' = AppendMember(situation, UnitOrder[unit_i], SPOUSE)
    /\ IF unit_i < Len(UnitOrder)
       THEN unit_i' = unit_i + 1 /\ pc' = pc
       ELSE unit_i' = 0 /\ pc' = "children"
    /\ UNCHANGED <<formVars, child_i, parserVars, pipeVars>>

\* for i in range(num_children): the person entry, or the end of the loop
NextChild ==
    /\ pc = "children"
    /\ IF child_i < num_children
       THEN /\ situation' = WithPerson(situation, ChildName(child_i), ChildAttrs)
            /\ unit_i' = 1
            /\ pc' = "child_units"
            /\ UNCHANGED events
       ELSE /\ pc' = "simulate"
            /\ events' = Append(events, "household_built")
            /\ UNCHANGED <<situation, unit_i>>
    /\ UNCHANGED <<formVars, child_i, parserVars, sim, llm, explanation>>

\* one iteration of the loop over unit_names for a child
AppendChild ==
    /\ pc = "child_units"
    /\ situation' =
          IF TakesChildren(UnitOrder[unit_i])
          THEN AppendMember(situation, UnitOrder[unit_i], ChildName(child_i))
          ELSE situation
    /\ IF unit_i < Len(UnitOrder)
       THEN unit_i' = unit_i + 1 /\ pc' = pc /\ child_i' = child_i
       ELSE unit_i' = 0 /\ pc' = "children" /\ child_i' = child_i + 1
    /\ UNCHANGED <<formVars, parserVars, pipeVars>>

\* RunSimulation with the failure swallowed and the submission carrying on
RunSimulation_caught ==
    /\ pc = "simulate"
    /\ \/ /\ sim' = "failed"
          /\ pc' = "explain"
          /\ UNCHANGED log_lines
       \/ /\ sim' = "ok"
          /\ log_lines' \in SimTraces
          /\ pc' = "explain"
    /\ events' = Append(events, "simulation")
    /\ UNCHANGED <<formVars, builderVars, max_depth, current_depth, parent_stack,
                   G, added, loop_iters, llm, explanation>>

\* Simulation(...), calculate, log.lines: a failure is not caught
RunSimulation ==
    /\ pc = "simulate"
    /\ \/ /\ sim' = "failed"
          /\ pc' = "aborted"
          /\ UNCHANGED log_lines
       \/ /\ sim' = "ok"
          /\ log_lines' \in SimTraces
          /\ pc' = After(pc)
    /\ events' = Append(events, "simulation")
    /\ UNCHANGED <<formVars, builderVars, max_depth, current_depth, parent_stack,
                   G, added, loop_iters, llm, explanation>>

\* explanation = get_explanation(variable, result[0], log_str)
GetExplanation ==
    /\ pc = "explain"
    /\ \E o \in LlmOutcomes :
          /\ llm' = o
          /\ LET r == get_explanation(o)
             IN  IF r.raised
                 THEN pc' = "aborted" /\ UNCHANGED explanation
                 ELSE pc' = After(pc) /\ explanation' = r.value
    /\ events' = Append(events, "get_explanation")
    /\ UNCHANGED <<formVars, builderVars, parserVars, sim>>

\* st.write(f"{variable}: ${result[0]:.2f}")
ShowResult ==
    /\ pc = "show_result"
    /\ events' = Append(events, "display_result")
    /\ pc' = After(pc)
    /\ UNCHANGED <<formVars, builderVars, parserVars, sim, llm, explanation>>

\* st.subheader("Explanation"); st.write(explanation)
ShowExplanation ==
    /\ pc = "show_explanation"
    /\ events' = Append(events, "display_explanation")
    /\ pc' = After(pc)
    /\ UNCHANGED <<formVars, builderVars, parserVars, sim, llm, explanation>>

\* G = create_computation_graph(log_lines)
CreateGraph ==
    /\ pc = "graph"
    /\ LET r == create_computation_graph(log_lines, max_depth)
       IN  /\ G' = r.G
           /\ current_depth' = r.current_depth
           /\ parent_stack' = r.parent_stack
           /\ loop_iters' = r.iters
           /\ pc' = IF r.raised THEN "aborted" ELSE After(pc)
    /\ events' = Append(events, "create_computation_graph")
    /\ UNCHANGED <<formVars, builderVars, log_lines, max_depth, added,
                   sim, llm, explanation>>

\* fig = plot_computation_graph(G); st.pyplot(fig)
ShowGraph ==
    /\ pc = "plot"
    /\ events' = Append(events, "display_graph")
    /\ pc' = After(pc)
    /\ UNCHANGED <<formVars, builderVars, parserVars, sim, llm, explanation>>

\* st.subheader("Computation Log"); st.text(log_str)
ShowLog ==
    /\ pc = "show_log"
    /\ events' = Append(events, "display_trace")
    /\ pc' = After(pc)
    /\ UNCHANGED <<formVars, builderVars, parserVars, sim, llm, explanation>>

Next ==
    \/ Click
    \/ CheckMarried
    \/ AppendSpouse
    \/ NextChild
    \/ AppendChild
    \/ RunSimulation
    \/ GetExplanation
    \/ ShowResult
    \/ ShowExplanation
    \/ CreateGraph
    \/ ShowGraph
    \/ ShowLog

Spec == Init /\ [][Next]_vars

----------------------------------------------------------------------------
(* create_computation_graph on its own, one loop iteration per step, for any
   lines and any max_depth *)

InitParser ==
    /\ pc = "loop"
    /\ max_depth \in DepthArgs
    /\ log_lines = << >>
    /\ current_depth = 0
    /\ parent_stack = InitialParentStack
    /\ G = EmptyGraph
    /\ added = << >>
    /\ loop_iters = 0
    /\ married = FALSE
    /\ num_children = 0
    /\ situation = NoSituation
    /\ child_i = 0
    /\ unit_i = 0
    /\ sim = "none"
    /\ llm = [kind |-> "none", text |-> << >>]
    /\ explanation = << >>
    /\ events = << >>

\* the loop takes the next line of log_lines and runs its body
ProcessLine ==
    /\ pc = "loop"
    /\ Len(log_lines) < MaxLen
    /\ \E line \in Lines :
          LET r == LoopBody(line,
                       Locals(current_depth, parent_stack, G, FALSE, 0, << >>),
                       max_depth)
          IN  /\ log_lines' = Append(log_lines, line)
              /\ current_depth' = r.current_depth
              /\ parent_stack' = r.parent_stack
              /\ G' = r.G
              /\ added' = Append(added, r.edge)
              /\ loop_iters' = r.iters
              /\ pc' = IF r.raised THEN "raised" ELSE "loop"
    /\ UNCHANGED <<formVars, builderVars, max_depth, pipeVars>>

\* log_lines is exhausted: return G
ReturnGraph ==
    /\ pc = "loop"
    /\ pc' = "returned"
    /\ UNCHANGED <<formVars, builderVars, parserVars, pipeVars>>

NextParser ==
    \/ ProcessLine
    \/ ReturnGraph

SpecParser == InitParser /\ [][NextParser]_vars

----------------------------------------------------------------------------
(* Properties of the household builder *)

BuilderDone == pc \notin {"form", "spouse_check", "spouse_units", "children", "child_units"}

PeopleIds == DOMAIN situation.people
MembersOf(u) == {situation.members[u][k] : k \in 1..Len(situation.members[u])}

\* the identifiers the form asks for, in the order you, spouse, child_1 .. child_N
ExpectedAdults == <<YOU>> \o (IF married THEN <<SPOUSE>> ELSE << >>)
ExpectedChildren == [k \in 1..num_children |-> <<"child_", k>>]
ExpectedEveryone == ExpectedAdults \o ExpectedChildren

\* C4: once the household is built, people has exactly 1 + married + num_children
\* entries (you, spouse iff married, child_1..child_N); the family, tax unit and
\* household lists are [you, spouse iff married, child_1, ..., child_N] in that
\* order; the marital unit is you plus spouse iff married, with no child.
C4_HouseholdShape ==
    BuilderDone =>
        /\ Cardinality(PeopleIds) = 1 + (IF married THEN 1 ELSE 0) + num_children
        /\ PeopleIds = {ExpectedEveryone[k] : k \in 1..Len(ExpectedEveryone)}
        /\ situation.members["families"] = ExpectedEveryone
        /\ situation.members["tax_units"] = ExpectedEveryone
        /\ situation.members["households"] = ExpectedEveryone
        /\ situation.members["marital_units"] = ExpectedAdults
        /\ (~married => \A u \in Units : SPOUSE \notin MembersOf(u) \cup PeopleIds)
        /\ (num_children = 0 =>
               \A id \in PeopleIds \cup UNION {MembersOf(u) : u \in Units} :
                   id[1] # "child_")

C4_Witness ==
    /\ pc = "simulate"
    /\ married
    /\ num_children = MaxChildren
    /\ Len(situation.members["households"]) = MaxChildren + 2
    /\ Len(situation.members["marital_units"]) = 2

\* C5: in every state of the construction (after the initial record, after the
\* spouse entry, after each append to each group) every member of every group
\* is a key of people, and "you" is in people and in all four groups.
C5_ReferentialIntegrity ==
    pc # "form" =>
        /\ \A u \in Units : MembersOf(u) \subseteq PeopleIds
        /\ YOU \in PeopleIds
        /\ \A u \in Units : YOU \in MembersOf(u)

C5_Witness ==
    /\ pc = "child_units"
    /\ married
    /\ child_i = 1
    /\ unit_i = 3
    /\ ChildName(1) \in PeopleIds
    /\ ChildName(1) \in MembersOf("families")
    /\ ChildName(1) \notin MembersOf("households")

----------------------------------------------------------------------------
(* Properties of get_explanation and of the submission *)

Displays == {"display_result", "display_explanation", "display_graph", "display_trace"}
Happened(e) == \E k \in 1..Len(events) : events[k] = e

\* every occurrence of b in events has an occurrence of a before it
Before(a, b) ==
    \A k \in 1..Len(events) :
        events[k] = b => \E j \in 1..(k - 1) : events[j] = a

\* C3: get_explanation never raises to its caller: when the service call fails
\* (network, auth, quota, malformed response) it returns a string that begins
\* with "Failed to get explanation:" followed by the failure detail, and when
\* the call succeeds it returns the generated text.
C3_ExplanationNeverRaises ==
    /\ llm.kind \in FailureKinds =>
          /\ pc # "aborted"
          /\ Len(explanation) = 3
          /\ explanation[1] = "Failed to get explanation:"
          /\ explanation[3] = ExcDetail(llm.kind)
    /\ llm.kind = "ok" =>
          /\ pc # "aborted"
          /\ explanation = llm.text

C3_Witness ==
    /\ pc = "show_result"
    /\ llm.kind = "malformed"
    /\ explanation = <<"Failed to get explanation:", " ", "list index out of range">>

\* C6: if the simulation call fails the submission aborts there: no explanation
\* request is made and nothing is displayed; if the explanation call fails the
\* submission still displays the numeric result, the fallback text in place of
\* the explanation, and the raw trace.
C6_FailureDomains ==
    /\ sim = "failed" =>
          /\ pc = "aborted"
          /\ ~Happened("get_explanation")
          /\ ~Happened("create_computation_graph")
          /\ \A d \in Displays : ~Happened(d)
    /\ llm.kind \in FailureKinds =>
          /\ pc # "aborted"
          /\ (Happened("display_explanation") =>
                 explanation[1] = "Failed to get explanation:")
          /\ (pc = "done" =>
                 /\ Happened("display_result")
                 /\ Happened("display_explanation")
                 /\ Happened("display_trace"))

C6_Witness ==
    /\ pc = "done"
    /\ sim = "ok"
    /\ llm.kind = "quota"
    /\ Happened("display_result")
    /\ Happened("display_trace")

\* C7 (as claimed): the order is builder, simulation, parser, explanation
\* request, presentation: create_computation_graph has finished before
\* get_explanation is called, and nothing is displayed before the simulation
\* call, the parser and the explanation request have all completed.
C7_Claimed ==
    /\ Before("household_built", "simulation")
    /\ Before("simulation", "create_computation_graph")
    /\ Before("create_computation_graph", "get_explanation")
    /\ \A d \in Displays :
          /\ Before("simulation", d)
          /\ Before("create_computation_graph", d)
          /\ Before("get_explanation", d)

\* C7 (amended): the order is builder, simulation, explanation request, display
\* of the numeric result and of the explanation, parser, display of the graph
\* and of the raw trace: get_explanation has returned before
\* create_computation_graph is called, nothing is displayed before the
\* simulation call and the explanation request have completed, and the graph
\* and the raw trace are not displayed before the parser has completed.
C7_LinearOrder ==
    /\ Before("household_built", "simulation")
    /\ Before("simulation", "get_explanation")
    /\ Before("get_explanation", "create_computation_graph")
    /\ Before("display_result", "display_explanation")
    /\ Before("display_explanation", "create_computation_graph")
    /\ Before("create_computation_graph", "display_graph")
    /\ Before("display_graph", "display_trace")
    /\ \A d \in Displays :
          /\ Before("simulation", d)
          /\ Before("get_explanation", d)

C7_Witness ==
    /\ pc = "done"
    /\ events = <<"household_built", "simulation", "get_explanation",
                  "display_result", "display_explanation",
                  "create_computation_graph", "display_graph", "display_trace">>

----------------------------------------------------------------------------
(* Properties of create_computation_graph *)

\* number of leading spaces of a line
RECURSIVE LeadingSpaces(_)
LeadingSpaces(line) ==
    IF line # << >> /\ Head(line) = " " THEN 1 + LeadingSpaces(Tail(line)) ELSE 0

\* nesting = leading spaces / 2
Nesting(line) == LeadingSpaces(line) \div 2

EvenIndent(lines) == \A k \in 1..Len(lines) : LeadingSpaces(lines[k]) % 2 = 0

\* no line is more than one level deeper than the line before it; the first
\* line has no indentation
Stepwise(lines) ==
    \A k \in 1..Len(lines) :
        Nesting(lines[k]) <= (IF k = 1 THEN 0 ELSE Nesting(lines[k - 1]) + 1)

\* label of the nearest line before line k that is exactly one level shallower,
\* "root" for a line with no indentation
ExpectedParent(lines, k) ==
    IF Nesting(lines[k]) = 0 THEN ROOT
    ELSE LET cands == {j \in 1..(k - 1) : Nesting(lines[j]) = Nesting(lines[k]) - 1}
             last == CHOOSE j \in cands : \A i \in cands : i <= j
         IN  NodeName(lines[last])

Running == pc \in {"loop", "returned"}

\* every line names a computation step
Labelled(lines) == \A k \in 1..Len(lines) : NodeName(lines[k]) # << >>

\* C1 (as claimed): with max_depth >= 2 and a well-formed trace (indentation a
\* multiple of two spaces, at most one level deeper than the previous line,
\* never deeper than max_depth) every line adds exactly one edge, from the label
\* of the nearest preceding line one level shallower, or from "root" for a line
\* with no indentation.
C1_Claimed ==
    ( /\ Running
      /\ max_depth >= 2
      /\ Labelled(log_lines)
      /\ EvenIndent(log_lines)
      /\ Stepwise(log_lines)
      /\ \A k \in 1..Len(log_lines) : Nesting(log_lines[k]) <= max_depth )
    => /\ \A k \in 1..Len(log_lines) :
              added[k] = <<ExpectedParent(log_lines, k), NodeName(log_lines[k])>>
       /\ G.edges = {<<ExpectedParent(log_lines, k), NodeName(log_lines[k])>> :
                         k \in 1..Len(log_lines)}

\* C2 (as claimed): in a trace with lines nested deeper than max_depth, a line
\* whose nesting exceeds max_depth adds no edge, and every line at nesting
\* k <= max_depth gets its edge from the most recent preceding accepted line at
\* nesting k-1 (from "root" when k = 0).
C2_Claimed ==
    ( /\ Running
      /\ Labelled(log_lines)
      /\ EvenIndent(log_lines)
      /\ Stepwise(log_lines)
      /\ \E k \in 1..Len(log_lines) : Nesting(log_lines[k]) > max_depth )
    => \A k \in 1..Len(log_lines) :
          IF Nesting(log_lines[k]) > max_depth
          THEN added[k] = << >>
          ELSE added[k] = <<ExpectedParent(log_lines, k), NodeName(log_lines[k])>>

\* C9 (as claimed): a line indented exactly one level deeper than current_depth,
\* with current_depth < max_depth, increments current_depth and pushes onto
\* parent_stack, keeping the entries of the shallower depths; a line indented
\* exactly at current_depth changes neither current_depth nor the stack height.
C9_Claimed ==
    [][ (pc = "loop" /\ Len(log_lines') = Len(log_lines) + 1) =>
          LET line == log_lines'[Len(log_lines')]
          IN  /\ ( /\ LeadingSpaces(line) = 2 * (current_depth + 1)
                   /\ current_depth < max_depth )
                 => /\ current_depth' = current_depth + 1
                    /\ Len(parent_stack') = Len(parent_stack) + 1
                    /\ SubSeq(parent_stack', 1, Len(parent_stack)) = parent_stack
              /\ LeadingSpaces(line) = 2 * current_depth
                 => /\ current_depth' = current_depth
                    /\ Len(parent_stack') = Len(parent_stack)
      ]_vars

\* the nodes reachable from the nodes of S along the edges of g
RECURSIVE ReachableFrom(_, _)
ReachableFrom(g, S) ==
    LET more == S \cup {e[2] : e \in {d \in g.edges : d[1] \in S}}
    IN  IF more = S THEN S ELSE ReachableFrom(g, more)

Successors(g, n) == {e[2] : e \in {d \in g.edges : d[1] = n}}
Incoming(g, n) == {e \in g.edges : e[2] = n}

IsTreeRootedAt(g, r) ==
    /\ Incoming(g, r) = {}
    /\ \A n \in g.nodes \ {r} : Cardinality(Incoming(g, n)) = 1
    /\ g.nodes \subseteq ReachableFrom(g, {r})
    /\ \A n \in g.nodes : n \notin ReachableFrom(g, Successors(g, n))

DistinctLabels(lines) ==
    /\ \A k \in 1..Len(lines) : NodeName(lines[k]) # ROOT
    /\ \A j, k \in 1..Len(lines) : j # k => NodeName(lines[j]) # NodeName(lines[k])

\* C8: for a trace whose labels are pairwise distinct and different from "root"
\* and whose indentation never increases by more than one level from one line
\* to the next, the returned graph is a tree rooted at "root": no edge into
\* "root", exactly one incoming edge for every other node, every node reachable
\* from "root", no cycle and no self-loop.
C8_TreeRootedAtRoot ==
    ( /\ pc = "returned"
      /\ DistinctLabels(log_lines)
      /\ \A k \in 2..Len(log_lines) :
            LeadingSpaces(log_lines[k]) - LeadingSpaces(log_lines[k - 1]) <= 2 )
    => IsTreeRootedAt(G, ROOT)

C8_Witness ==
    /\ pc = "returned"
    /\ max_depth = MaxDepthArg
    /\ DistinctLabels(log_lines)
    /\ Len(log_lines) = 3
    /\ LeadingSpaces(log_lines[1]) = 0
    /\ LeadingSpaces(log_lines[2]) = 2
    /\ LeadingSpaces(log_lines[3]) = 0
    /\ Cardinality(G.edges) = 3
    /\ Cardinality(G.nodes) = 4

\* C10: on any sequence of lines and any max_depth >= 0 the function never
\* aborts: after every processed line len(parent_stack) = current_depth + 1 and
\* 0 <= current_depth <= max_depth, parent_stack is never empty, and the
\* go-back-up loop runs at most current_depth times.
C10_NeverAborts ==
    /\ [](max_depth >= 0 =>
            /\ pc # "raised"
            /\ parent_stack # << >>
            /\ Len(parent_stack) = current_depth + 1
            /\ 0 <= current_depth
            /\ current_depth <= max_depth)
    /\ [][(max_depth >= 0 /\ Len(log_lines') = Len(log_lines) + 1)
            => loop_iters' <= current_depth]_vars

C10_Witness ==
    /\ pc = "returned"
    /\ max_depth = 0
    /\ Len(log_lines) = 3
    /\ LeadingSpaces(log_lines[1]) = MaxSpaces
    /\ log_lines[2] = << >>
    /\ log_lines[3] = <<"c">>
    /\ Cardinality(G.edges) = 3

====
